---- MODULE Spec2Model ----
(***************************************************************************)
(* Supplier recommendation system (src/supplier.py): the preprocessing of  *)
(* the purchase-order table, recommend_suppliers, and the search button    *)
(* handler with its relaxed-criteria fallback and reason column (Catatan). *)
(*                                                                         *)
(* Numbers: prices and lead times are integers, a nullable cell is <<v>>   *)
(* or NULL, and every quotient (defect rate, mean, max_price * 1.5) is an  *)
(* exact rational [n, d] in lowest terms with d > 0.                       *)
(***************************************************************************)
EXTENDS Integers, Sequences, FiniteSets, TLC

VARIABLES raw, df, pc, criteria, calls, filtered_df, hasil, alternatif, outcome

vars == <<raw, df, pc, criteria, calls, filtered_df, hasil, alternatif, outcome>>

\* ---------------------------------------------------------------- bounds

\* The largest number of rows of the input file.
MaxRows == 4

\* ------------------------------------------------------------- rationals

\* A cell that may be empty holds <<v>>, or NULL for NaN / NaT.
NULL == <<>>
Some(v) == <<v>>
Val(x) == x[1]

Abs(x) == IF x < 0 THEN -x ELSE x

RECURSIVE GCD(_, _)
GCD(a, b) == IF b = 0 THEN a ELSE GCD(b, a % b)

\* n / d, d # 0, in lowest terms with a positive denominator.
Rat(n, d) ==
    LET s == IF d < 0 THEN -1 ELSE 1
        g == GCD(Abs(n), Abs(d))
    IN  [n |-> (s * n) \div g, d |-> (s * d) \div g]

FromInt(i) == [n |-> i, d |-> 1]

RLeq(a, b) == a.n * b.d <= b.n * a.d
RLt(a, b) == a.n * b.d < b.n * a.d
RAdd(a, b) == Rat(a.n * b.d + b.n * a.d, a.d * b.d)
RSub(a, b) == Rat(a.n * b.d - b.n * a.d, a.d * b.d)
RMul(a, b) == Rat(a.n * b.n, a.d * b.d)
RAbs(a) == [n |-> Abs(a.n), d |-> a.d]

\* round with a tie rounded up.
round_half_up(q) ==
    LET f == q.n \div q.d
        r == q.n - f * q.d
    IN  IF 2 * r < q.d THEN f ELSE f + 1

\* Python's round() of a float: to the nearest integer, a tie to the even one.
round(q) ==
    LET f == q.n \div q.d
        r == q.n - f * q.d
    IN  IF 2 * r < q.d THEN f
        ELSE IF 2 * r > q.d THEN f + 1
        ELSE IF f % 2 = 0 THEN f ELSE f + 1

\* Python's int() of a float: truncation towards zero.
int(q) == IF q.n >= 0 THEN q.n \div q.d ELSE -((-q.n) \div q.d)

\* The digits of format(q, ".1f"): the number of tenths.
Fmt1f(q) == round(RMul(q, FromInt(10)))

\* --------------------------------------------------------------- strings

Range(s) == {s[i] : i \in DOMAIN s}

\* The strings of the model in Python's (code point) order.
StrOrder ==
    <<"Alpha", "Beta", "Closed", "No", "Office", "Open", "Tools", "Yes", "office">>

StrRank(s) == CHOOSE i \in DOMAIN StrOrder : StrOrder[i] = s

\* str.lower()
lower(s) ==
    CASE s = "Office" -> "office"
      [] s = "Tools" -> "tools"
      [] s = "All" -> "all"
      [] OTHER -> s

\* Python's < on lists of strings of the same length.
RECURSIVE KeyLess(_, _)
KeyLess(a, b) ==
    IF a = <<>> THEN FALSE
    ELSE IF Head(a) # Head(b) THEN StrRank(Head(a)) < StrRank(Head(b))
    ELSE KeyLess(Tail(a), Tail(b))

\* ------------------------------------------------------- the input file

Row(po, sup, cat, comp, st, q, def, up, np, od, dd) ==
    [PO_ID |-> po, Supplier |-> sup, Item_Category |-> cat, Compliance |-> comp,
     Order_Status |-> st, Quantity |-> q, Defective_Units |-> def,
     Unit_Price |-> up, Negotiated_Price |-> np,
     Order_Date |-> od, Delivery_Date |-> dd]

\* The rows a data_supplier.csv of the model is made of: prices in USD, dates
\* as day numbers (1 is 2024-01-01), NULL an empty cell.
Pool ==
    <<Row(1, "Alpha", "Office", "Yes", "Closed", 200, Some(11), 12, 10, 1, Some(4)),
      Row(2, "Alpha", "office", "No", "Open", 200, Some(13), 12, 10, 1, NULL),
      Row(3, "Alpha", "Office", "Yes", "Open", 200, NULL, 10, 5, 1, Some(8)),
      Row(4, "Alpha", "office", "Yes", "Closed", 200, Some(10), 12, 12, 1, Some(4)),
      Row(5, "Beta", "Tools", "No", "Open", 200, Some(10), 10, 10, 1, NULL),
      Row(6, "Beta", "Office", "No", "Closed", 200, Some(10), 10, 10, 1, Some(6)),
      Row(7, "Beta", "Tools", "Yes", "Open", 100, Some(0), 10, 10, 1, Some(5)),
      Row(8, "Alpha", "Tools", "Yes", "Closed", 0, Some(0), 10, 10, 1, Some(6))>>

\* The rows of Pool picked by the set S of positions, in file order.
RECURSIVE Pick(_, _)
Pick(S, i) ==
    IF i > Len(Pool) THEN <<>>
    ELSE (IF i \in S THEN <<Pool[i]>> ELSE <<>>) \o Pick(S, i + 1)

\* The input files: from one to MaxRows rows of Pool.
Files ==
    {Pick(S, 1) : S \in {T \in SUBSET (DOMAIN Pool) : Cardinality(T) \in 1..MaxRows}}

\* The values the form's widgets offer (lines 112-122), a few of each, the
\* widgets' defaults among them.
MaxPrices == {100000, 160000, 200000}
MaxLeadTimes == {2, 5, 10}
MaxDefectRates == {FromInt(3), FromInt(5)}
CompliancePreferences == {"All", "Yes", "No"}

\* ----------------------------------------------------- table operations

RECURSIVE Sum(_)
Sum(qs) == IF qs = <<>> THEN FromInt(0) ELSE RAdd(Head(qs), Sum(Tail(qs)))

\* Series.mean() of a column without nulls, len(qs) > 0.
Mean(qs) == RMul(Sum(qs), Rat(1, Len(qs)))

\* ---------------------------------------------------------- preprocessing

usd_to_idr == 16000

\* (Delivery_Date - Order_Date).dt.days: NaT gives NaN.
Lead_Time(row) ==
    IF row.Delivery_Date = NULL THEN NULL
    ELSE Some(Val(row.Delivery_Date) - row.Order_Date)

\* df.dropna(subset=['Delivery_Date']).groupby('Supplier')['Lead_Time'].mean():
\* a mean for each supplier that has a row with a delivery date.
mean_lead_time(t) ==
    LET ref == SelectSeq(t, LAMBDA r : r.Delivery_Date # NULL)
    IN  [s \in {ref[i].Supplier : i \in DOMAIN ref} |->
            LET own == SelectSeq(ref, LAMBDA r : r.Supplier = s)
            IN  Mean([i \in DOMAIN own |-> FromInt(Val(Lead_Time(own[i])))])]

isi_delivery_date(row, mlt) ==
    IF row.Delivery_Date = NULL /\ row.Supplier \in DOMAIN mlt
    THEN Some(row.Order_Date + round(mlt[row.Supplier]))
    ELSE row.Delivery_Date

\* fillna(0)
fillna0(x) == IF x = NULL THEN 0 ELSE Val(x)

Defect_Rate(row) ==
    IF row.Quantity # 0
    THEN RMul(Rat(row.Defective_Units, row.Quantity), FromInt(100))
    ELSE FromInt(0)

\* (1 - Negotiated_Price / Unit_Price) * 100, Unit_Price > 0 in every file.
Price_Efficiency(row) ==
    RMul(RSub(FromInt(1), Rat(row.Negotiated_Price, row.Unit_Price)), FromInt(100))

\* Lines 7-40 of the script: the canonical table of a file.
Preprocess(file) ==
    LET priced == [i \in DOMAIN file |->
                     [file[i] EXCEPT !.Unit_Price = @ * usd_to_idr,
                                     !.Negotiated_Price = @ * usd_to_idr]]
        mlt == mean_lead_time(priced)
        imputed == [i \in DOMAIN priced |->
                      [priced[i] EXCEPT
                          !.Delivery_Date = isi_delivery_date(priced[i], mlt),
                          !.Defective_Units = fillna0(@)]]
    IN  [i \in DOMAIN imputed |->
            imputed[i] @@ [Lead_Time |-> Lead_Time(imputed[i]),
                           Defect_Rate |-> Defect_Rate(imputed[i]),
                           Price_Efficiency |-> Price_Efficiency(imputed[i])]]

\* ----------------------------------------------------- recommend_suppliers

\* No copy: the call's filters are applied to df itself.
CopyOf_none(d, working) == working

\* df.copy(): the call works on a copy, df itself is what it was.
CopyOf(d, working) == d

\* Lines 46-47: the category filter, case-insensitive, skipped for "All".
CategoryFilter(t, item_category) ==
    IF item_category # "All"
    THEN SelectSeq(t, LAMBDA r : lower(r.Item_Category) = lower(item_category))
    ELSE t

\* Lines 49-52: the compliance filter; any preference but "Yes" and "No" keeps all.
ComplianceFilter(t, compliance_preference) ==
    IF compliance_preference = "Yes"
    THEN SelectSeq(t, LAMBDA r : r.Compliance = "Yes")
    ELSE IF compliance_preference = "No"
    THEN SelectSeq(t, LAMBDA r : r.Compliance = "No")
    ELSE t

\* ThresholdFilter with the lead-time comparison the wrong way round.
ThresholdFilter_flipped(t, max_price, max_lead_time, max_defect_rate) ==
    SelectSeq(t, LAMBDA r :
        /\ RLeq(FromInt(r.Negotiated_Price), max_price)
        /\ r.Lead_Time # NULL
        /\ RLeq(max_lead_time, FromInt(Val(r.Lead_Time)))
        /\ RLeq(r.Defect_Rate, max_defect_rate))

\* ThresholdFilter with exclusive bounds.
ThresholdFilter_exclusive(t, max_price, max_lead_time, max_defect_rate) ==
    SelectSeq(t, LAMBDA r :
        /\ RLt(FromInt(r.Negotiated_Price), max_price)
        /\ r.Lead_Time # NULL
        /\ RLt(FromInt(Val(r.Lead_Time)), max_lead_time)
        /\ RLt(r.Defect_Rate, max_defect_rate))

\* Lines 54-58: the three thresholds; a comparison with NaN is False.
ThresholdFilter(t, max_price, max_lead_time, max_defect_rate) ==
    SelectSeq(t, LAMBDA r :
        /\ RLeq(FromInt(r.Negotiated_Price), max_price)
        /\ r.Lead_Time # NULL
        /\ RLeq(FromInt(Val(r.Lead_Time)), max_lead_time)
        /\ RLeq(r.Defect_Rate, max_defect_rate))

\* Lines 63, 74-77.
group_cols(item_category, compliance_preference) ==
    <<"Supplier">>
    \o (IF item_category = "All" THEN <<"Item_Category">> ELSE <<>>)
    \o (IF compliance_preference = "All" THEN <<"Compliance">> ELSE <<>>)

\* Lines 89-93: the index columns handed to crosstab.
crosstab_cols(item_category, compliance_preference) ==
    <<"Supplier">>
    \o (IF item_category = "All" THEN <<"Item_Category">> ELSE <<>>)
    \o (IF compliance_preference = "All" THEN <<"Compliance">> ELSE <<>>)

KeyOf(row, cols) == [i \in DOMAIN cols |-> row[cols[i]]]

\* The distinct keys of a set, ascending: groupby and crosstab sort their keys.
RECURSIVE SortedKeys(_)
SortedKeys(K) ==
    IF K = {} THEN <<>>
    ELSE LET m == CHOOSE k \in K : \A o \in K \ {k} : KeyLess(k, o)
         IN  <<m>> \o SortedKeys(K \ {m})

GroupKeys(t, cols) == SortedKeys({KeyOf(t[i], cols) : i \in DOMAIN t})

Column(t, c) == [i \in DOMAIN t |-> t[i][c]]

\* Lines 64-85: groupby(group_cols).agg(agg_dict).rename(...).reset_index()
Aggregate(t, cols) ==
    LET keys == GroupKeys(t, cols)
    IN  [g \in DOMAIN keys |->
            LET grp == SelectSeq(t, LAMBDA r : KeyOf(r, cols) = keys[g])
            IN  [c \in Range(cols) |-> grp[1][c]] @@
                [Avg_Negotiated_Price |->
                     Mean([i \in DOMAIN grp |-> FromInt(grp[i].Negotiated_Price)]),
                 Lead_Time |->
                     Mean([i \in DOMAIN grp |-> FromInt(Val(grp[i].Lead_Time))]),
                 Defect_Rate_pct |-> Mean(Column(grp, "Defect_Rate")),
                 Price_Efficiency_pct |-> Mean(Column(grp, "Price_Efficiency")),
                 Total_Quantity |->
                     Sum([i \in DOMAIN grp |-> FromInt(grp[i].Quantity)]).n,
                 Total_Orders |-> Len(grp)]]

\* status_counts with each status counted over all filtered rows, not the group's.
status_counts_global(t, cols) ==
    LET keys == GroupKeys(t, cols)
        statuses == {t[i].Order_Status : i \in DOMAIN t}
    IN  [g \in DOMAIN keys |->
            LET grp == SelectSeq(t, LAMBDA r : KeyOf(r, cols) = keys[g])
            IN  [c \in Range(cols) |-> grp[1][c]] @@
                [s \in statuses |->
                    Len(SelectSeq(t, LAMBDA r : r.Order_Status = s))]]

\* Lines 88-95: pd.crosstab(index columns, Order_Status).reset_index(): a row for
\* each key, a count column for each status of the filtered rows.
status_counts(t, cols) ==
    LET keys == GroupKeys(t, cols)
        statuses == {t[i].Order_Status : i \in DOMAIN t}
    IN  [g \in DOMAIN keys |->
            LET grp == SelectSeq(t, LAMBDA r : KeyOf(r, cols) = keys[g])
            IN  [c \in Range(cols) |-> grp[1][c]] @@
                [s \in statuses |->
                    Len(SelectSeq(grp, LAMBDA r : r.Order_Status = s))]]

\* The columns of a table that are not among the given ones.
OtherColumns(t, cols) ==
    IF t = <<>> THEN {} ELSE DOMAIN t[1] \ Range(cols)

\* merge_left joining on Supplier alone: a left row meets every right row of
\* its supplier.
RECURSIVE merge_left_on_supplier(_, _, _)
merge_left_on_supplier(left, right, cols) ==
    IF left = <<>> THEN <<>>
    ELSE LET l == Head(left)
             matches == SelectSeq(right, LAMBDA r : r.Supplier = l.Supplier)
         IN  [i \in DOMAIN matches |-> l @@ matches[i]]
             \o merge_left_on_supplier(Tail(left), right, cols)

\* Line 97: pd.merge(left, right, on=cols, how='left'): for each left row, in
\* order, a row for each right row with its key; NaN columns if there is none.
RECURSIVE merge_left(_, _, _)
merge_left(left, right, cols) ==
    IF left = <<>> THEN <<>>
    ELSE LET l == Head(left)
             matches == SelectSeq(right, LAMBDA r : KeyOf(r, cols) = KeyOf(l, cols))
             joined ==
                 IF matches = <<>>
                 THEN <<l @@ [c \in OtherColumns(right, cols) |-> NULL]>>
                 ELSE [i \in DOMAIN matches |-> l @@ matches[i]]
         IN  joined \o merge_left(Tail(left), right, cols)

\* SortsBefore by the defect rate alone.
SortsBefore_defect_only(a, b) == RLt(a.Defect_Rate_pct, b.Defect_Rate_pct)

\* The order of sort_values(by=['Defect_Rate (%)', 'Lead_Time',
\* 'Avg_Negotiated_Price']): a sorts strictly before b.
SortsBefore(a, b) ==
    \/ RLt(a.Defect_Rate_pct, b.Defect_Rate_pct)
    \/ /\ a.Defect_Rate_pct = b.Defect_Rate_pct
       /\ \/ RLt(a.Lead_Time, b.Lead_Time)
          \/ /\ a.Lead_Time = b.Lead_Time
             /\ RLt(a.Avg_Negotiated_Price, b.Avg_Negotiated_Price)

\* x put into the sorted rows behind every row it does not sort before.
RECURSIVE InsertSorted(_, _)
InsertSorted(sorted, x) ==
    IF sorted = <<>> THEN <<x>>
    ELSE IF SortsBefore(x, Head(sorted)) THEN <<x>> \o sorted
    ELSE <<Head(sorted)>> \o InsertSorted(Tail(sorted), x)

\* Line 100: sort_values on several columns is a stable sort.
RECURSIVE sort_values(_)
sort_values(t) ==
    IF t = <<>> THEN <<>>
    ELSE InsertSorted(sort_values(SubSeq(t, 1, Len(t) - 1)), t[Len(t)])

\* Lines 43-101: the rows that pass (filtered_df), the table returned (result),
\* and df as the call leaves it.
recommend_suppliers(d, item_category, max_price, max_lead_time, max_defect_rate, compliance_preference) ==
    LET filtered ==
            ThresholdFilter(
                ComplianceFilter(CategoryFilter(d, item_category),
                                 compliance_preference),
                max_price, max_lead_time, max_defect_rate)
        cols == group_cols(item_category, compliance_preference)
        result == Aggregate(filtered, cols)
        counts == status_counts(filtered,
                                crosstab_cols(item_category, compliance_preference))
    IN  [df |-> CopyOf(d, filtered),
         filtered_df |-> filtered,
         result |-> IF filtered = <<>> THEN <<>>
                    ELSE sort_values(merge_left(result, counts, cols))]

\* ------------------------------------------------- the search button handler

\* The widgets' values when the form is first drawn (lines 109-122).
DefaultCriteria ==
    [item_category |-> "All", max_price |-> 200000, max_lead_time |-> 10,
     max_defect_rate |-> FromInt(5), compliance_preference |-> "All"]

\* Line 108: the categories the select box offers.
item_categories(d) == {"All"} \cup {d[i].Item_Category : i \in DOMAIN d}

\* toleransi_price with the ceiling doubled.
toleransi_price_double(max_price) == RMul(FromInt(max_price), FromInt(2))

\* Lines 142-144.
toleransi_defect(max_defect_rate) == RAdd(max_defect_rate, FromInt(2))
toleransi_lead(max_lead_time) == max_lead_time + 2
toleransi_price(max_price) == RMul(FromInt(max_price), Rat(3, 2))

\* The arguments of a call of recommend_suppliers, as the call log keeps them.
Args(item_category, max_price, max_lead_time, max_defect_rate, compliance_preference) ==
    [item_category |-> item_category, max_price |-> max_price,
     max_lead_time |-> max_lead_time, max_defect_rate |-> max_defect_rate,
     compliance_preference |-> compliance_preference]

\* alasan with the 'near' window one point wide.
alasan_narrow(row, max_defect_rate, max_price, max_lead_time) ==
    (IF RLeq(RAbs(RSub(row.Defect_Rate_pct, max_defect_rate)), FromInt(1))
     THEN <<<<"Defect Rate mendekati batas", Fmt1f(row.Defect_Rate_pct)>>>>
     ELSE IF RLt(max_defect_rate, row.Defect_Rate_pct)
     THEN <<<<"Defect Rate", Fmt1f(row.Defect_Rate_pct)>>>>
     ELSE <<>>)
    \o (IF RLt(FromInt(max_price), row.Avg_Negotiated_Price)
        THEN <<<<"Harga", int(row.Avg_Negotiated_Price), max_price>>>>
        ELSE <<>>)
    \o (IF RLt(FromInt(max_lead_time), row.Lead_Time)
        THEN <<<<"Lead Time", row.Lead_Time>>>>
        ELSE <<>>)

\* alasan with the 'near' test exclusive at two points.
alasan_exclusive(row, max_defect_rate, max_price, max_lead_time) ==
    (IF RLt(RAbs(RSub(row.Defect_Rate_pct, max_defect_rate)), FromInt(2))
     THEN <<<<"Defect Rate mendekati batas", Fmt1f(row.Defect_Rate_pct)>>>>
     ELSE IF RLt(max_defect_rate, row.Defect_Rate_pct)
     THEN <<<<"Defect Rate", Fmt1f(row.Defect_Rate_pct)>>>>
     ELSE <<>>)
    \o (IF RLt(FromInt(max_price), row.Avg_Negotiated_Price)
        THEN <<<<"Harga", int(row.Avg_Negotiated_Price), max_price>>>>
        ELSE <<>>)
    \o (IF RLt(FromInt(max_lead_time), row.Lead_Time)
        THEN <<<<"Lead Time", row.Lead_Time>>>>
        ELSE <<>>)

\* Lines 157-167: the reasons of a row of the alternatives, in order; each is the
\* message's fixed text and the numbers formatted into it.
alasan(row, max_defect_rate, max_price, max_lead_time) ==
    (IF RLeq(RAbs(RSub(row.Defect_Rate_pct, max_defect_rate)), FromInt(2))
     THEN <<<<"Defect Rate mendekati batas", Fmt1f(row.Defect_Rate_pct)>>>>
     ELSE IF RLt(max_defect_rate, row.Defect_Rate_pct)
     THEN <<<<"Defect Rate", Fmt1f(row.Defect_Rate_pct)>>>>
     ELSE <<>>)
    \o (IF RLt(FromInt(max_price), row.Avg_Negotiated_Price)
        THEN <<<<"Harga", int(row.Avg_Negotiated_Price), max_price>>>>
        ELSE <<>>)
    \o (IF RLt(FromInt(max_lead_time), row.Lead_Time)
        THEN <<<<"Lead Time", row.Lead_Time>>>>
        ELSE <<>>)

Init ==
    /\ raw \in Files
    /\ df = <<>>
    /\ pc = "start"
    /\ criteria = DefaultCriteria
    /\ calls = <<>>
    /\ filtered_df = <<>>
    /\ hasil = <<>>
    /\ alternatif = <<>>
    /\ outcome = "none"

\* Lines 7-40: a run of the script loads and prepares the table.
Load ==
    /\ pc = "start"
    /\ df' = Preprocess(raw)
    /\ pc' = "form"
    /\ UNCHANGED <<raw, criteria, calls, filtered_df, hasil, alternatif, outcome>>

\* Lines 108-135: the user sets the widgets and presses the button.
Search ==
    /\ pc = "form"
    /\ \E ic \in item_categories(df), mp \in MaxPrices, ml \in MaxLeadTimes,
          md \in MaxDefectRates, cp \in CompliancePreferences :
          LET r == recommend_suppliers(df, ic, FromInt(mp), FromInt(ml), md, cp)
          IN  /\ criteria' = Args(ic, mp, ml, md, cp)
              /\ calls' = <<Args(ic, FromInt(mp), FromInt(ml), md, cp)>>
              /\ df' = r.df
              /\ filtered_df' = r.filtered_df
              /\ hasil' = r.result
    /\ pc' = "primary"
    /\ UNCHANGED <<raw, alternatif, outcome>>

\* Lines 172-182: a result is shown, with its CSV export.
ShowRecommended ==
    /\ pc = "primary"
    /\ hasil # <<>>
    /\ outcome' = "recommended"
    /\ pc' = "done"
    /\ UNCHANGED <<raw, df, criteria, calls, filtered_df, hasil, alternatif>>

\* Lines 137-152: no result, so the relaxed query is made.
Fallback ==
    /\ pc = "primary"
    /\ hasil = <<>>
    /\ LET tp == toleransi_price(criteria.max_price)
           tl == FromInt(toleransi_lead(criteria.max_lead_time))
           td == toleransi_defect(criteria.max_defect_rate)
           r == recommend_suppliers(df, criteria.item_category, tp, tl, td,
                                    criteria.compliance_preference)
       IN  /\ calls' = Append(calls, Args(criteria.item_category, tp, tl, td,
                                          criteria.compliance_preference))
           /\ df' = r.df
           /\ filtered_df' = r.filtered_df
           /\ alternatif' = r.result
    /\ pc' = "fallback"
    /\ UNCHANGED <<raw, criteria, hasil, outcome>>

\* Lines 154-155.
NoAlternatives ==
    /\ pc = "fallback"
    /\ alternatif = <<>>
    /\ outcome' = "no alternatives"
    /\ pc' = "done"
    /\ UNCHANGED <<raw, df, criteria, calls, filtered_df, hasil, alternatif>>

\* Lines 156-170: the reason column is added to the alternatives.
Annotate ==
    /\ pc = "fallback"
    /\ alternatif # <<>>
    /\ alternatif' =
           [i \in DOMAIN alternatif |->
               alternatif[i] @@
               [Catatan |-> alasan(alternatif[i], criteria.max_defect_rate,
                                   criteria.max_price, criteria.max_lead_time)]]
    /\ outcome' = "alternatives"
    /\ pc' = "done"
    /\ UNCHANGED <<raw, df, criteria, calls, filtered_df, hasil>>

\* The page is opened again: the script runs from its first line and the form
\* is drawn with the widgets' defaults. (A rerun within a session differs only
\* in the values the widgets show before the user sets them for the next search.)
Rerun ==
    /\ pc = "done"
    /\ pc' = "start"
    /\ df' = <<>>
    /\ criteria' = DefaultCriteria
    /\ calls' = <<>>
    /\ filtered_df' = <<>>
    /\ hasil' = <<>>
    /\ alternatif' = <<>>
    /\ outcome' = "none"
    /\ UNCHANGED raw

Next ==
    \/ Load
    \/ Search
    \/ ShowRecommended
    \/ Fallback
    \/ NoAlternatives
    \/ Annotate
    \/ Rerun

Spec == Init /\ [][Next]_vars

\* ------------------------------------------------------------ the claims

\* The call a state's result comes from and that result, before any reason
\* column is added.
Called == pc \in {"primary", "fallback"}
LastArgs == calls[Len(calls)]
LastResult == IF pc = "primary" THEN hasil ELSE alternatif

POs(t) == {t[i].PO_ID : i \in DOMAIN t}

KeyColumns == {"Supplier", "Item_Category", "Compliance"}

\* The row of a result a record falls into: they agree on the row's key columns.
InGroup(rec, row) == \A c \in KeyColumns \cap DOMAIN row : rec[c] = row[c]

RECURSIVE SumInts(_, _)
SumInts(f, S) ==
    IF S = {} THEN 0
    ELSE LET x == CHOOSE y \in S : TRUE IN f[x] + SumInts(f, S \ {x})

\* The conjunction of C1 for a record and the arguments of a call.
Satisfies(rec, a) ==
    /\ \/ a.item_category = "All"
       \/ lower(rec.Item_Category) = lower(a.item_category)
    /\ \/ a.compliance_preference = "All"
       \/ rec.Compliance = a.compliance_preference
    /\ rec.Negotiated_Price * a.max_price.d <= a.max_price.n
    /\ rec.Lead_Time # NULL
    /\ Val(rec.Lead_Time) * a.max_lead_time.d <= a.max_lead_time.n
    /\ rec.Defect_Rate.n * a.max_defect_rate.d <= a.max_defect_rate.n * rec.Defect_Rate.d

\* C1: a record is among the filtered rows, and is counted in exactly one row of
\* the result, if and only if it satisfies the conjunction of the category, the
\* compliance and the three inclusive thresholds; the result is empty exactly
\* when no record does.
C1_FilterContract ==
    Called =>
        LET passing == {i \in DOMAIN df : Satisfies(df[i], LastArgs)}
        IN  /\ POs(filtered_df) = {df[i].PO_ID : i \in passing}
            /\ Len(filtered_df) = Cardinality(passing)
            /\ (LastResult = <<>>) <=> (passing = {})
            /\ \A i \in passing :
                   Cardinality({k \in DOMAIN LastResult :
                                    InGroup(df[i], LastResult[k])}) = 1
            /\ \A k \in DOMAIN LastResult :
                   LastResult[k].Total_Orders =
                       Cardinality({i \in passing : InGroup(df[i], LastResult[k])})

\* A primary call that keeps a record exactly on each of the three thresholds
\* and one whose category differs in case from the query's, and drops another.
C1_Witness ==
    /\ pc = "primary"
    /\ hasil # <<>>
    /\ Len(filtered_df) < Len(df)
    /\ \E i \in DOMAIN filtered_df :
           /\ filtered_df[i].Negotiated_Price = criteria.max_price
           /\ filtered_df[i].Lead_Time = Some(criteria.max_lead_time)
           /\ filtered_df[i].Defect_Rate = criteria.max_defect_rate
    /\ \E i \in DOMAIN filtered_df :
           /\ criteria.item_category # "All"
           /\ filtered_df[i].Item_Category # criteria.item_category

\* The rows of df that pass the three filters of a call with arguments a.
Passing(a) ==
    ThresholdFilter(
        ComplianceFilter(CategoryFilter(df, a.item_category), a.compliance_preference),
        a.max_price, a.max_lead_time, a.max_defect_rate)

\* The arguments a with one threshold raised, and with the fallback's three.
Relaxations(a) ==
    {[a EXCEPT !.max_price = RAdd(@, FromInt(inc))] : inc \in {1, 40000, 100000}}
    \cup {[a EXCEPT !.max_price = RMul(@, Rat(3, 2))]}
    \cup {[a EXCEPT !.max_lead_time = RAdd(@, FromInt(inc))] : inc \in {1, 2, 4}}
    \cup {[a EXCEPT !.max_defect_rate = RAdd(@, inc)] :
              inc \in {Rat(1, 2), FromInt(2), FromInt(5)}}
    \cup {[a EXCEPT !.max_price = RMul(@, Rat(3, 2)),
                    !.max_lead_time = RAdd(@, FromInt(2)),
                    !.max_defect_rate = RAdd(@, FromInt(2))]}

\* C2: the rows a call's filter keeps are kept under the same arguments with any
\* one of max_price, max_lead_time, max_defect_rate raised, and under the
\* fallback's relaxed arguments (max_price * 1.5, max_lead_time + 2,
\* max_defect_rate + 2).
C2_FilterMonotone ==
    Called => \A b \in Relaxations(LastArgs) : POs(filtered_df) \subseteq POs(Passing(b))

\* A primary call that keeps some rows and a raised threshold that keeps more.
C2_Witness ==
    /\ pc = "primary"
    /\ filtered_df # <<>>
    /\ \E b \in Relaxations(LastArgs) : POs(Passing(b)) \ POs(filtered_df) # {}

\* The key of a result row: its values in the columns a query's key is made of.
QueryKeyColumns(a) ==
    {"Supplier"}
    \cup (IF a.item_category = "All" THEN {"Item_Category"} ELSE {})
    \cup (IF a.compliance_preference = "All" THEN {"Compliance"} ELSE {})

Restrict(f, S) == [c \in S |-> f[c]]

\* C3: a result row carries Supplier, Item_Category exactly when item_category
\* is "All" and Compliance exactly when compliance_preference is "All"; the
\* result has exactly one row for each key value of the filtered rows, so a
\* query narrowed on both has at most one row for a supplier.
C3_GroupingKey ==
    Called =>
        LET K == QueryKeyColumns(LastArgs)
            res == LastResult
        IN  /\ \A k \in DOMAIN res : KeyColumns \cap DOMAIN res[k] = K
            /\ \A k, m \in DOMAIN res :
                   Restrict(res[k], K) = Restrict(res[m], K) => k = m
            /\ {Restrict(res[k], K) : k \in DOMAIN res}
                   = {Restrict(filtered_df[i], K) : i \in DOMAIN filtered_df}
            /\ (LastArgs.item_category # "All" /\ LastArgs.compliance_preference # "All")
                   => \A k, m \in DOMAIN res : res[k].Supplier = res[m].Supplier => k = m

\* A query narrowed on both category and compliance whose result merges rows
\* of one supplier that spell the category differently.
C3_Witness ==
    /\ Called
    /\ LastArgs.item_category # "All"
    /\ LastArgs.compliance_preference # "All"
    /\ Len(LastResult) >= 1
    /\ \E i, j \in DOMAIN filtered_df :
           /\ filtered_df[i].Supplier = filtered_df[j].Supplier
           /\ filtered_df[i].Item_Category # filtered_df[j].Item_Category

\* A result keyed by all three columns with two rows of one supplier.
C3_WitnessAll ==
    /\ Called
    /\ LastArgs.item_category = "All"
    /\ LastArgs.compliance_preference = "All"
    /\ \E k, m \in DOMAIN LastResult :
           k # m /\ LastResult[k].Supplier = LastResult[m].Supplier

\* The sort key of a result row, and the lexicographic order of two of them.
Triple(row) == <<row.Defect_Rate_pct, row.Lead_Time, row.Avg_Negotiated_Price>>

RECURSIVE LexLeq(_, _)
LexLeq(x, y) ==
    IF x = <<>> THEN TRUE
    ELSE IF Head(x) = Head(y) THEN LexLeq(Tail(x), Tail(y))
    ELSE Head(x).n * Head(y).d < Head(y).n * Head(x).d

\* The key of a result row as the list groupby orders the groups by.
RowKey(row) ==
    <<row.Supplier>>
    \o (IF "Item_Category" \in DOMAIN row THEN <<row.Item_Category>> ELSE <<>>)
    \o (IF "Compliance" \in DOMAIN row THEN <<row.Compliance>> ELSE <<>>)

\* C4: consecutive rows of a result are in ascending lexicographic order of
\* (Defect_Rate (%), Lead_Time, Avg_Negotiated_Price), and rows equal in all
\* three are in ascending order of their group keys.
C4_SortOrder ==
    Called =>
        \A k \in 1..(Len(LastResult) - 1) :
            /\ LexLeq(Triple(LastResult[k]), Triple(LastResult[k + 1]))
            /\ Triple(LastResult[k]) = Triple(LastResult[k + 1])
                   => KeyLess(RowKey(LastResult[k]), RowKey(LastResult[k + 1]))

\* A result of three rows or more: two rows tie on all three values, and two
\* rows stand in the opposite order of their group keys.
C4_Witness ==
    /\ Called
    /\ Len(LastResult) >= 3
    /\ \E k \in 1..(Len(LastResult) - 1) :
           Triple(LastResult[k]) = Triple(LastResult[k + 1])
    /\ \E k \in 1..(Len(LastResult) - 1) :
           /\ KeyLess(RowKey(LastResult[k + 1]), RowKey(LastResult[k]))
           /\ LastResult[k].Defect_Rate_pct = LastResult[k + 1].Defect_Rate_pct

\* The status columns of a result row.
StatusColumns(row) ==
    DOMAIN row \ (KeyColumns \cup
        {"Avg_Negotiated_Price", "Lead_Time", "Defect_Rate_pct",
         "Price_Efficiency_pct", "Total_Quantity", "Total_Orders", "Catatan"})

\* C10: the merge with the status counts keeps the aggregation's rows (one for
\* each key of the filtered rows); a row has a column for each Order_Status of
\* the filtered rows, holding the number of its group's rows in that status, and
\* they sum to its Total_Orders; the Total_Orders sum to the number of filtered
\* rows, and Total_Quantity is the sum of Quantity over the row's group.
C10_StatusBreakdown ==
    Called =>
        LET res == LastResult
            K == QueryKeyColumns(LastArgs)
            F == DOMAIN filtered_df
            grp(k) == {i \in F : Restrict(filtered_df[i], K) = Restrict(res[k], K)}
        IN  /\ Len(res) = Cardinality({Restrict(filtered_df[i], K) : i \in F})
            /\ \A k \in DOMAIN res :
                   /\ StatusColumns(res[k]) = {filtered_df[i].Order_Status : i \in F}
                   /\ \A st \in StatusColumns(res[k]) :
                          res[k][st] = Cardinality({i \in grp(k) :
                                                       filtered_df[i].Order_Status = st})
                   /\ SumInts(res[k], StatusColumns(res[k])) = res[k].Total_Orders
                   /\ res[k].Total_Quantity =
                          SumInts([i \in F |-> filtered_df[i].Quantity], grp(k))
            /\ SumInts([k \in DOMAIN res |-> res[k].Total_Orders], DOMAIN res) = Len(filtered_df)

\* A result of several rows and two statuses, one row having no order in one
\* of the statuses and another having orders in both.
C10_Witness ==
    /\ Called
    /\ Len(LastResult) >= 2
    /\ \E k \in DOMAIN LastResult :
           Cardinality(StatusColumns(LastResult[k])) = 2
           /\ \E st \in StatusColumns(LastResult[k]) : LastResult[k][st] = 0
    /\ \E k \in DOMAIN LastResult :
           \A st \in StatusColumns(LastResult[k]) : LastResult[k][st] > 0

\* C5: the fallback call is made only after the primary call of the same search
\* returned nothing, with max_defect_rate + 2, max_lead_time + 2 and
\* max_price * 1.5 and the same category and compliance preference; a non-empty
\* primary result is shown and no fallback call is made; a finished search has
\* exactly one of the outcomes recommended, alternatives, no alternatives, the
\* last with no reason column computed.
C5_SearchOrder ==
    /\ Len(calls) <= 2
    /\ (pc \in {"start", "form"}) => (calls = <<>> /\ outcome = "none")
    /\ (pc = "primary") => (Len(calls) = 1 /\ outcome = "none" /\ alternatif = <<>>)
    /\ (pc = "fallback") => (Len(calls) = 2 /\ outcome = "none")
    /\ (Len(calls) >= 1) =>
           /\ calls[1].item_category = criteria.item_category
           /\ calls[1].compliance_preference = criteria.compliance_preference
           /\ calls[1].max_price = [n |-> criteria.max_price, d |-> 1]
           /\ calls[1].max_lead_time = [n |-> criteria.max_lead_time, d |-> 1]
           /\ calls[1].max_defect_rate = criteria.max_defect_rate
    /\ (Len(calls) = 2) =>
           /\ hasil = <<>>
           /\ calls[2].item_category = criteria.item_category
           /\ calls[2].compliance_preference = criteria.compliance_preference
           /\ 2 * calls[2].max_price.n = 3 * criteria.max_price * calls[2].max_price.d
           /\ calls[2].max_lead_time = [n |-> criteria.max_lead_time + 2, d |-> 1]
           /\ calls[2].max_defect_rate.n * criteria.max_defect_rate.d
                  = (criteria.max_defect_rate.n + 2 * criteria.max_defect_rate.d)
                        * calls[2].max_defect_rate.d
    /\ (pc \in {"primary", "done"} /\ hasil # <<>>) =>
           (Len(calls) = 1 /\ alternatif = <<>>)
    /\ (pc = "done") =>
           /\ outcome \in {"recommended", "alternatives", "no alternatives"}
           /\ (outcome = "recommended") <=> (hasil # <<>>)
           /\ (outcome = "alternatives") <=> (hasil = <<>> /\ alternatif # <<>>)
           /\ (outcome = "no alternatives") <=> (hasil = <<>> /\ alternatif = <<>>)
           /\ (outcome = "alternatives") =>
                  \A k \in DOMAIN alternatif : "Catatan" \in DOMAIN alternatif[k]

\* A search for 160000 / 5 days / 5% that ends with no alternatives after a
\* fallback call for 240000 / 7 days / 7%.
C5_Witness ==
    /\ pc = "done"
    /\ outcome = "no alternatives"
    /\ Len(calls) = 2
    /\ calls[1].max_price = FromInt(160000)
    /\ calls[2].max_price = FromInt(240000)
    /\ calls[2].max_lead_time = FromInt(7)
    /\ calls[2].max_defect_rate = FromInt(7)

\* The texts of the reasons of a row, in order.
ReasonTexts(row) == [i \in DOMAIN row.Catatan |-> row.Catatan[i][1]]

\* C6: the reasons of a row of the alternatives, against the original
\* thresholds: the 'near' one if the defect rate is within 2 of max_defect_rate,
\* else the plain one if it is above max_defect_rate, never both; then the price
\* one iff Avg_Negotiated_Price > max_price; then the lead-time one iff
\* Lead_Time > max_lead_time. A row without reasons satisfies all three
\* original thresholds.
C6_ReasonRules ==
    (pc = "done" /\ outcome = "alternatives") =>
        \A k \in DOMAIN alternatif :
            LET row == alternatif[k]
                dr == row.Defect_Rate_pct
                md == criteria.max_defect_rate
                diff == dr.n * md.d - md.n * dr.d
                near == -2 * dr.d * md.d <= diff /\ diff <= 2 * dr.d * md.d
                above == diff > 0
                price == row.Avg_Negotiated_Price.n
                             > criteria.max_price * row.Avg_Negotiated_Price.d
                lead == row.Lead_Time.n > criteria.max_lead_time * row.Lead_Time.d
            IN  /\ ReasonTexts(row) =
                       (IF near THEN <<"Defect Rate mendekati batas">>
                        ELSE IF above THEN <<"Defect Rate">> ELSE <<>>)
                       \o (IF price THEN <<"Harga">> ELSE <<>>)
                       \o (IF lead THEN <<"Lead Time">> ELSE <<>>)
                /\ ~ ({"Defect Rate mendekati batas", "Defect Rate"}
                          \subseteq Range(ReasonTexts(row)))
                /\ (row.Catatan = <<>>) => (diff <= 0 /\ ~price /\ ~lead)

\* Alternatives with a row of three reasons.
C6_Witness ==
    /\ pc = "done"
    /\ outcome = "alternatives"
    /\ \E k \in DOMAIN alternatif : Len(alternatif[k].Catatan) = 3

\* Alternatives with a row that has no reason.
C6_WitnessEdges ==
    /\ pc = "done"
    /\ outcome = "alternatives"
    /\ \E k \in DOMAIN alternatif : alternatif[k].Catatan = <<>>

\* C7 as stated: with max_defect_rate = 5, a row of the alternatives with a
\* defect rate of 6.5 has the plain "Defect Rate 6.5%" reason, and one with 5.5
\* has the 'near' reason.
C7_PlainReasonAt6_5 ==
    (pc = "done" /\ outcome = "alternatives"
         /\ criteria.max_defect_rate = FromInt(5)) =>
        \A k \in DOMAIN alternatif :
            /\ alternatif[k].Defect_Rate_pct = Rat(13, 2)
                   => <<"Defect Rate", 65>> \in Range(alternatif[k].Catatan)
            /\ alternatif[k].Defect_Rate_pct = Rat(11, 2)
                   => <<"Defect Rate mendekati batas", 55>>
                          \in Range(alternatif[k].Catatan)

\* C7 amended: with max_defect_rate = 5, a row of the alternatives with a defect
\* rate of 6.5 has the 'near' reason with 6.5% and not the plain one, and one
\* with 5.5 has the 'near' reason with 5.5%.
C7_NearReasonAt6_5 ==
    (pc = "done" /\ outcome = "alternatives"
         /\ criteria.max_defect_rate = FromInt(5)) =>
        \A k \in DOMAIN alternatif :
            /\ alternatif[k].Defect_Rate_pct = Rat(13, 2)
                   => /\ <<"Defect Rate mendekati batas", 65>>
                             \in Range(alternatif[k].Catatan)
                      /\ "Defect Rate" \notin Range(ReasonTexts(alternatif[k]))
            /\ alternatif[k].Defect_Rate_pct = Rat(11, 2)
                   => <<"Defect Rate mendekati batas", 55>>
                          \in Range(alternatif[k].Catatan)

\* Alternatives for max_defect_rate = 5 with a row at 6.5 and a row at 5.5.
C7_Witness ==
    /\ pc = "done"
    /\ outcome = "alternatives"
    /\ criteria.max_defect_rate = FromInt(5)
    /\ \E k \in DOMAIN alternatif : alternatif[k].Defect_Rate_pct = Rat(13, 2)
    /\ \E k \in DOMAIN alternatif : alternatif[k].Defect_Rate_pct = Rat(11, 2)

\* The result of a call with arguments a on the table d.
ResultOn(d, a) ==
    recommend_suppliers(d, a.item_category, a.max_price, a.max_lead_time,
                        a.max_defect_rate, a.compliance_preference).result

\* C8: once loaded, df is the table preprocessing produced, whatever calls were
\* made: no row or derived field changes and no row gains a Catatan; so the
\* results are those of the same calls on the table as loaded, and Catatan is
\* added to the alternatives alone.
C8_TableUnchanged ==
    (pc # "start") =>
        /\ df = Preprocess(raw)
        /\ \A i \in DOMAIN df : "Catatan" \notin DOMAIN df[i]
        /\ (Len(calls) >= 1) =>
               /\ hasil = ResultOn(Preprocess(raw), calls[1])
               /\ \A k \in DOMAIN hasil : "Catatan" \notin DOMAIN hasil[k]
        /\ (Len(calls) = 2) =>
               /\ Len(alternatif) = Len(ResultOn(Preprocess(raw), calls[2]))
               /\ \A k \in DOMAIN alternatif :
                      Restrict(alternatif[k], DOMAIN alternatif[k] \ {"Catatan"})
                          = ResultOn(Preprocess(raw), calls[2])[k]

\* A search whose two calls both dropped rows and whose alternatives got their
\* Catatan.
C8_Witness ==
    /\ pc = "done"
    /\ outcome = "alternatives"
    /\ Len(filtered_df) < Len(df)
    /\ \A k \in DOMAIN alternatif : "Catatan" \in DOMAIN alternatif[k]

\* The rows of the file of a supplier that have a delivery date.
Reference(sup) ==
    {j \in DOMAIN raw : raw[j].Supplier = sup /\ raw[j].Delivery_Date # NULL}

\* The file of the reference example: lead times 3, 5, 7 and a row without a
\* delivery date ordered on day 1 (2024-01-01).
ReferenceExample == Pick({1, 2, 3, 8}, 1)

\* C9: a row with a delivery date keeps it; a row without one whose supplier has
\* reference rows gets Order_Date + the integer nearest to the mean of their
\* lead times (a tie to the even one); with reference lead times 3, 5, 7 and
\* Order_Date day 1 that is day 6. Lead_Time is null exactly for a row without a
\* delivery date whose supplier has no reference row, and no call keeps such a
\* row.
C9_Imputation ==
    (pc # "start") =>
        /\ Len(df) = Len(raw)
        /\ \A i \in DOMAIN df :
               LET ref == Reference(raw[i].Supplier)
                   cnt == Cardinality(ref)
                   sum == SumInts([j \in ref |->
                                      Val(raw[j].Delivery_Date) - raw[j].Order_Date], ref)
               IN  /\ raw[i].Delivery_Date # NULL
                          => df[i].Delivery_Date = raw[i].Delivery_Date
                   /\ (raw[i].Delivery_Date = NULL /\ ref # {}) =>
                          /\ df[i].Delivery_Date # NULL
                          /\ LET days == Val(df[i].Delivery_Date) - raw[i].Order_Date
                                 off == 2 * (cnt * days - sum)
                             IN  /\ -cnt <= off /\ off <= cnt
                                 /\ (off = cnt \/ off = -cnt) => days % 2 = 0
                   /\ (df[i].Lead_Time = NULL)
                          <=> (raw[i].Delivery_Date = NULL /\ ref = {})
                   /\ df[i].Lead_Time # NULL
                          => Val(df[i].Lead_Time)
                                 = Val(df[i].Delivery_Date) - df[i].Order_Date
        /\ (raw = ReferenceExample) => df[2].Delivery_Date = Some(6)
        /\ \A i \in DOMAIN filtered_df : filtered_df[i].Lead_Time # NULL
        /\ Called =>
               SumInts([k \in DOMAIN LastResult |-> LastResult[k].Total_Orders],
                       DOMAIN LastResult)
                   <= Cardinality({i \in DOMAIN df : df[i].Lead_Time # NULL})

\* The reference example loaded and searched.
C9_Witness ==
    /\ raw = ReferenceExample
    /\ pc = "primary"
    /\ df[2].Delivery_Date = Some(6)

\* A table with an imputed row whose mean is a tie, and a row left without a
\* lead time, after a call that kept some rows.
C9_WitnessTie ==
    /\ Called
    /\ filtered_df # <<>>
    /\ \E i \in DOMAIN df : df[i].Lead_Time = NULL
    /\ \E i \in DOMAIN df :
           /\ raw[i].Delivery_Date = NULL
           /\ df[i].Lead_Time # NULL
           /\ LET ref == Reference(raw[i].Supplier)
              IN  2 * SumInts([j \in ref |->
                                  Val(raw[j].Delivery_Date) - raw[j].Order_Date], ref)
                      = Cardinality(ref) * (2 * Val(df[i].Lead_Time) + 1)

====
